---- MODULE Spec2Model ----
(***************************************************************************)
(* A model of the vesc codec: the sequential writer and reader of          *)
(* src/src/packer.rs and the command encoder / reply decoder of            *)
(* src/src/command.rs.                                                     *)
(*                                                                         *)
(* Conventions.  A byte buffer is a sequence of naturals in 0..255; the    *)
(* byte at Rust offset i is element i + 1 of the sequence, while pos and   *)
(* every length keep their Rust (0-based) values.  A Result is a record    *)
(* whose err field is "Ok" or the name of the Error variant; a panic       *)
(* (arithmetic overflow, slice index out of range) is the outcome "Panic". *)
(* An f32 is the reduced fraction [num, den]; the model draws only values  *)
(* whose products and conversions are exact in f32.  An i32, u16 or u8 is  *)
(* an integer; a u32 (the model's only u32 is a ValuesMask) is the set of  *)
(* the positions of its one-bits, bit 0 the least significant.             *)
(***************************************************************************)
EXTENDS Integers, Sequences, FiniteSets, TLC

VARIABLES command, out, frame, edit, input, reply, the_packer, the_unpacker, last

vars == <<command, out, frame, edit, input, reply, the_packer, the_unpacker, last>>

\* a Packer, an Unpacker and the last operation performed on either
cursors == <<the_packer, the_unpacker, last>>

\* what encode and decode are called with and return
codec == <<command, out, frame, edit, input, reply>>

(***************************************************************************)
(* Bounds of the model.                                                    *)
(***************************************************************************)
\* deepest ForwardCan nesting built in the encoder specification
MaxNest == 2
\* largest output buffer handed to encode in the encoder specification
MaxBuf == 18
\* deepest ForwardCan nesting built in the deep-nesting specification
MaxDeepNest == 130
\* capacity of the large output buffer of the deep-nesting specification
DeepBuf == 300

(***************************************************************************)
(* Integer helpers: widths, two's complement, big-endian bytes.            *)
(***************************************************************************)
Pow2(n) == 2 ^ n

I32_MAX == 2147483647

I32_MIN == -I32_MAX - 1

\* bit b of the natural v
Bit(v, b) == (v \div Pow2(b)) % 2

RECURSIVE XorBits(_, _, _)
\* bitwise exclusive or of the w low bits of a and b
XorBits(a, b, w) ==
    IF w = 0 THEN 0
    ELSE ((a + b) % 2) + 2 * XorBits(a \div 2, b \div 2, w - 1)

\* u8::to_be_bytes
u8_to_be_bytes(value) == <<value % 256>>

\* u16::to_be_bytes
u16_to_be_bytes(value) == <<(value \div 256) % 256, value % 256>>

RECURSIVE BitsValue(_, _, _)
\* the number whose one-bits are the members of bits in lo..lo+7, bit lo weighing 1
BitsValue(bits, lo, k) ==
    IF k = 8 THEN 0
    ELSE (IF lo + k \in bits THEN Pow2(k) ELSE 0) + BitsValue(bits, lo, k + 1)

\* u32::to_be_bytes: bits 24..31 first, bits 0..7 last
u32_to_be_bytes(value) ==
    <<BitsValue(value, 24, 0), BitsValue(value, 16, 0),
      BitsValue(value, 8, 0), BitsValue(value, 0, 0)>>

\* byte k (0 the least significant) of the two's complement of the i32 value
I32Byte(value, k) ==
    IF value >= 0 THEN (value \div Pow2(8 * k)) % 256
    ELSE 255 - (((-(value + 1)) \div Pow2(8 * k)) % 256)

\* a plausible slip: the bytes of an i32 in little-endian order
i32_to_le_bytes(value) ==
    <<I32Byte(value, 0), I32Byte(value, 1), I32Byte(value, 2), I32Byte(value, 3)>>

\* i32::to_be_bytes: the two's complement of value, most significant byte first
i32_to_be_bytes(value) ==
    <<I32Byte(value, 3), I32Byte(value, 2), I32Byte(value, 1), I32Byte(value, 0)>>

\* u8/u16::from_be_bytes
uN_from_be_bytes(bytes) ==
    IF Len(bytes) = 1 THEN bytes[1] ELSE bytes[1] * 256 + bytes[2]

\* u32::from_be_bytes: bit b is bit b % 8 of the byte at offset 3 - b / 8
u32_from_be_bytes(bytes) ==
    {b \in 0..31 : Bit(bytes[4 - (b \div 8)], b % 8) = 1}

\* i16/i32::from_be_bytes: the first byte carries the sign
iN_from_be_bytes(bytes) ==
    LET top == IF bytes[1] >= 128 THEN bytes[1] - 256 ELSE bytes[1]
    IN  IF Len(bytes) = 2 THEN top * 256 + bytes[2]
        ELSE ((top * 256 + bytes[2]) * 256 + bytes[3]) * 256 + bytes[4]

(***************************************************************************)
(* f32 values as reduced fractions.                                        *)
(***************************************************************************)
RECURSIVE Gcd(_, _)
Gcd(a, b) == IF b = 0 THEN a ELSE Gcd(b, a % b)

Abs(a) == IF a < 0 THEN -a ELSE a

\* the f32 num/den, den > 0, in lowest terms
F32(num, den) ==
    LET g == Gcd(Abs(num), den)
    IN  [num |-> num \div g, den |-> den \div g]

\* f32 default (0.0)
F32Zero == [num |-> 0, den |-> 1]

\* `(value * scale) as i32`: the product truncated toward zero, saturating
f32_mul_as_i32(value, scale) ==
    LET neg == value.num < 0
        a == Abs(value.num)
        whole == a \div value.den
        frac == a % value.den
    IN  IF whole > I32_MAX \div scale
        THEN (IF neg THEN I32_MIN ELSE I32_MAX)
        ELSE LET t == whole * scale + (frac * scale) \div value.den
             IN  IF neg THEN -t ELSE t

\* `raw as f32 / scale`
i_as_f32_div(raw, scale) == F32(raw, scale)

(***************************************************************************)
(* CRC16 = crc::Crc::<u16>::new(&crc::CRC_16_XMODEM): width 16, poly       *)
(* 0x1021, init 0x0000, refin = refout = false, xorout 0x0000, computed    *)
(* with the crate's 256-entry lookup table.                                *)
(***************************************************************************)
CRC_POLY == 4129

CRC_INIT == 0

CRC_XOROUT == 0

\* 8-bit exclusive or, tabulated once
Xor8 == [a \in 0..255 |-> [b \in 0..255 |-> XorBits(a, b, 8)]]

\* 16-bit exclusive or through the byte table
Xor16(a, b) ==
    Xor8[a \div 256][b \div 256] * 256 + Xor8[a % 256][b % 256]

\* one entry of the crate's table: byte i shifted to the top, eight shift/xor steps
CrcTableEntry(i) ==
    LET RECURSIVE step(_, _)
        step(v, k) ==
            IF k = 0 THEN v
            ELSE step(IF v >= 32768
                      THEN Xor16((v * 2) % 65536, CRC_POLY)
                      ELSE (v * 2) % 65536, k - 1)
    IN  step(i * 256, 8)

CrcTable == [i \in 0..255 |-> CrcTableEntry(i)]

\* Digest::update for one byte: table[(crc >> 8) ^ byte] ^ (crc << 8)
CrcUpdate(crc, byte) ==
    Xor16(CrcTable[Xor8[crc \div 256][byte]], (crc * 256) % 65536)

RECURSIVE CrcDigest(_, _, _, _)
\* Digest::update over bytes[lo..hi], started from crc; the range is halved so
\* that the evaluation stays shallow, and the test on crc keeps it evaluated
CrcDigest(bytes, lo, hi, crc) ==
    IF crc < 0 \/ lo > hi THEN crc
    ELSE IF lo = hi THEN CrcUpdate(crc, bytes[lo])
    ELSE LET mid == (lo + hi) \div 2
         IN  CrcDigest(bytes, mid + 1, hi, CrcDigest(bytes, lo, mid, crc))

\* a plausible slip: the CCITT-FALSE preset (init 0xFFFF) instead of XMODEM
CRC16_checksum_ffff(bytes) ==
    Xor16(CrcDigest(bytes, 1, Len(bytes), 65535), CRC_XOROUT)

\* CRC16.checksum(bytes)
CRC16_checksum(bytes) ==
    Xor16(CrcDigest(bytes, 1, Len(bytes), CRC_INIT), CRC_XOROUT)

(***************************************************************************)
(* Protocol constants.                                                     *)
(***************************************************************************)
FRAME_END == 3

FRAME_START_SHORT == 2

CommandId_GetValues == 4

CommandId_SetCurrent == 6

CommandId_SetRpm == 8

CommandId_ForwardCan == 34

CommandId_GetValuesSelective == 50

\* the `?` operator: stop at the first error, else continue with the cursor
Try(r, F(_)) == IF r.err # "Ok" THEN r ELSE F(r.cursor)

(***************************************************************************)
(* Packer (src/src/packer.rs).                                             *)
(***************************************************************************)
Packer_new(buf) == [buf |-> buf, pos |-> 0]

\* a plausible slip: `>=` in the capacity test, refusing a perfect fit
pack_off_by_one(self, bytes) ==
    LET need == Len(bytes)
    IN  IF self.pos + need >= Len(self.buf)
        THEN [err |-> "BufferTooSmall", cursor |-> self]
        ELSE [err |-> "Ok",
              cursor |-> [buf |-> SubSeq(self.buf, 1, self.pos) \o bytes \o
                                      SubSeq(self.buf, self.pos + need + 1, Len(self.buf)),
                          pos |-> self.pos + need]]

\* Packer::pack
pack(self, bytes) ==
    LET need == Len(bytes)
    IN  IF self.pos + need > Len(self.buf)
        THEN [err |-> "BufferTooSmall", cursor |-> self]
        ELSE [err |-> "Ok",
              cursor |-> [buf |-> SubSeq(self.buf, 1, self.pos) \o bytes \o
                                      SubSeq(self.buf, self.pos + need + 1, Len(self.buf)),
                          pos |-> self.pos + need]]

pack_u32(self, value) == pack(self, u32_to_be_bytes(value))

pack_i32(self, value) == pack(self, i32_to_be_bytes(value))

pack_u16(self, value) == pack(self, u16_to_be_bytes(value))

pack_u8(self, value) == pack(self, u8_to_be_bytes(value))

pack_f32(self, value, scale) == pack_i32(self, f32_mul_as_i32(value, scale))

(***************************************************************************)
(* Command and its serialisation (src/src/command.rs).                     *)
(* A Command is a record of its innermost (non-ForwardCan) command, tag and  *)
(* field, and of fwd: the controller ids of the ForwardCan layers wrapped    *)
(* around it, outermost first.  ForwardCan(1, &ForwardCan(7, &SetRpm(5))) is *)
(* [tag |-> "SetRpm", rpm |-> 5, fwd |-> <<1, 7>>].                         *)
(***************************************************************************)
GetValues == [tag |-> "GetValues", fwd |-> <<>>]

SetCurrent(current) == [tag |-> "SetCurrent", current |-> current, fwd |-> <<>>]

SetRpm(rpm) == [tag |-> "SetRpm", rpm |-> rpm, fwd |-> <<>>]

ForwardCan(controller_id, inner) == [inner EXCEPT !.fwd = <<controller_id>> \o @]

GetValuesSelective(mask) == [tag |-> "GetValuesSelective", mask |-> mask, fwd |-> <<>>]

\* the ForwardCan arm of Command::pack_into, up to its recursive call
pack_forward_can(r, controller_id) ==
    Try(Try(r, LAMBDA p: pack_u8(p, CommandId_ForwardCan)),
        LAMBDA p: pack_u8(p, controller_id))

RECURSIVE pack_layers(_, _, _, _)
\* the ForwardCan arms of layers lo..hi, outermost first, each continuing into the
\* next as the recursive call `command.pack_into(packer)?` does; the range is
\* halved so that the evaluation of a deep nesting stays shallow
pack_layers(fwd, lo, hi, r) ==
    IF r.err # "Ok" \/ lo > hi THEN r
    ELSE IF lo = hi THEN pack_forward_can(r, fwd[lo])
    ELSE LET mid == (lo + hi) \div 2
         IN  pack_layers(fwd, mid + 1, hi, pack_layers(fwd, lo, mid, r))

\* the arms of Command::pack_into other than ForwardCan
pack_innermost(self, packer) ==
    CASE self.tag = "GetValues" ->
            pack_u8(packer, CommandId_GetValues)
      [] self.tag = "SetCurrent" ->
            Try(pack_u8(packer, CommandId_SetCurrent),
                LAMBDA p: pack_f32(p, self.current, 1000))
      [] self.tag = "SetRpm" ->
            Try(pack_u8(packer, CommandId_SetRpm),
                LAMBDA p: pack_i32(p, self.rpm))
      [] self.tag = "GetValuesSelective" ->
            Try(pack_u8(packer, CommandId_GetValuesSelective),
                LAMBDA p: pack_u32(p, self.mask))

\* Command::pack_into
pack_into(self, packer) ==
    Try(pack_layers(self.fwd, 1, Len(self.fwd), [err |-> "Ok", cursor |-> packer]),
        LAMBDA p: pack_innermost(self, p))

\* the Result of encode: the error or Ok(size), and the caller's buffer afterwards
EncodeResult(err, size, buf) == [err |-> err, size |-> size, buf |-> buf]

\* a plausible slip: the length byte counted from the start marker
encode_len_from_start(cmd, buf) ==
    LET r1 == pack_u8(Packer_new(buf), FRAME_START_SHORT)
        r2 == Try(r1, LAMBDA p: pack_u8(p, 0))
        r3 == Try(r2, LAMBDA p: pack_into(cmd, p))
    IN  IF r3.err # "Ok" THEN EncodeResult(r3.err, 0, r3.cursor.buf)
        ELSE LET packer == r3.cursor
                 payload_len == packer.pos - 2
                 patched == [packer EXCEPT !.buf[2] = packer.pos % 256]
                 r4 == pack_u16(patched,
                                CRC16_checksum(SubSeq(patched.buf, 3, 2 + payload_len)))
                 r5 == Try(r4, LAMBDA p: pack_u8(p, FRAME_END))
             IN  IF r5.err # "Ok" THEN EncodeResult(r5.err, 0, r5.cursor.buf)
                 ELSE EncodeResult("Ok", r5.cursor.pos, r5.cursor.buf)

\* encode(command, buf)
encode(cmd, buf) ==
    LET r1 == pack_u8(Packer_new(buf), FRAME_START_SHORT)
        r2 == Try(r1, LAMBDA p: pack_u8(p, 0))
        r3 == Try(r2, LAMBDA p: pack_into(cmd, p))
    IN  IF r3.err # "Ok" THEN EncodeResult(r3.err, 0, r3.cursor.buf)
        ELSE LET packer == r3.cursor
                 payload_len == packer.pos - 2
                 \* packer.buf[1] = payload_len as u8
                 patched == [packer EXCEPT !.buf[2] = payload_len % 256]
                 r4 == pack_u16(patched,
                                CRC16_checksum(SubSeq(patched.buf, 3, 2 + payload_len)))
                 r5 == Try(r4, LAMBDA p: pack_u8(p, FRAME_END))
             IN  IF r5.err # "Ok" THEN EncodeResult(r5.err, 0, r5.cursor.buf)
                 ELSE EncodeResult("Ok", r5.cursor.pos, r5.cursor.buf)

(***************************************************************************)
(* Unpacker (src/src/packer.rs).                                           *)
(***************************************************************************)
Unpacker_new(buf) == [buf |-> buf, pos |-> 0]

\* a plausible slip: a read past the end consumes what is left before it fails
consume_to_end(self, amount) ==
    IF self.pos + amount > Len(self.buf)
    THEN [err |-> "IncompleteData", cursor |-> [self EXCEPT !.pos = Len(self.buf)],
          value |-> <<>>]
    ELSE [err |-> "Ok",
          cursor |-> [self EXCEPT !.pos = self.pos + amount],
          value |-> SubSeq(self.buf, self.pos + 1, self.pos + amount)]

\* Unpacker::consume
consume(self, amount) ==
    IF self.pos + amount > Len(self.buf)
    THEN [err |-> "IncompleteData", cursor |-> self, value |-> <<>>]
    ELSE [err |-> "Ok",
          cursor |-> [self EXCEPT !.pos = self.pos + amount],
          value |-> SubSeq(self.buf, self.pos + 1, self.pos + amount)]

\* Ok(f(x?)): convert the value of a successful read
MapOk(r, F(_)) == IF r.err # "Ok" THEN r ELSE [r EXCEPT !.value = F(r.value)]

unpack_u32(self) == MapOk(consume(self, 4), u32_from_be_bytes)

unpack_i32(self) == MapOk(consume(self, 4), iN_from_be_bytes)

unpack_u16(self) == MapOk(consume(self, 2), uN_from_be_bytes)

\* a plausible slip: the 16-bit field read unsigned
unpack_i16_unsigned(self) == MapOk(consume(self, 2), uN_from_be_bytes)

unpack_i16(self) == MapOk(consume(self, 2), iN_from_be_bytes)

unpack_u8(self) == MapOk(consume(self, 1), uN_from_be_bytes)

unpack_f32(self, scale) == MapOk(unpack_i32(self), LAMBDA raw: i_as_f32_div(raw, scale))

unpack_f16(self, scale) == MapOk(unpack_i16(self), LAMBDA raw: i_as_f32_div(raw, scale))

(***************************************************************************)
(* ValuesMask, Values and CommandReply (src/src/command.rs).               *)
(***************************************************************************)
TEMP_MOSFET == {0}
TEMP_MOTOR == {1}
AVG_CURRENT_MOTOR == {2}
AVG_CURRENT_INPUT == {3}
AVG_CURRENT_D == {4}
AVG_CURRENT_Q == {5}
DUTY_CYCLE == {6}
RPM == {7}
VOLTAGE_IN == {8}
AMP_HOURS == {9}
AMP_HOURS_CHARGED == {10}
WATT_HOURS == {11}
WATT_HOURS_CHARGED == {12}
TACHOMETER == {13}
TACHOMETER_ABS == {14}
FAULT_CODE == {15}
PID_POS == {16}
CONTROLLER_ID == {17}
TEMP_MOSFET_ALL == {18}
AVG_VOLTAGE_D == {19}
AVG_VOLTAGE_Q == {20}
STATUS == {21}

\* every bit of a u32
U32_ALL == 0..31

\* a plausible slip: a membership test that never finds a flag
contains_never(mask, flag) == FALSE

\* ValuesMask::contains: every bit of flag is set in mask
contains(mask, flag) == (mask \cap flag) = flag

\* Values::default()
Values_default ==
    [temp_mosfet |-> F32Zero, temp_motor |-> F32Zero,
     avg_current_motor |-> F32Zero, avg_current_input |-> F32Zero,
     avg_current_d |-> F32Zero, avg_current_q |-> F32Zero,
     duty_cycle |-> F32Zero, rpm |-> F32Zero, voltage_in |-> F32Zero,
     amp_hours |-> F32Zero, amp_hours_charged |-> F32Zero,
     watt_hours |-> F32Zero, watt_hours_charged |-> F32Zero,
     tachometer |-> 0, tachometer_abs |-> 0, fault_code |-> 0,
     pid_pos |-> F32Zero, controller_id |-> 0,
     temp_mosfet1 |-> F32Zero, temp_mosfet2 |-> F32Zero, temp_mosfet3 |-> F32Zero,
     avg_voltage_d |-> F32Zero, avg_voltage_q |-> F32Zero, status |-> 0]

\* one read of the decoder: the field it fills, the unpack call and its scale
Rd(field, kind, scale) == [field |-> field, kind |-> kind, scale |-> scale]

\* the unpack call a read makes
unpack_kind(self, rd) ==
    CASE rd.kind = "f16" -> unpack_f16(self, rd.scale)
      [] rd.kind = "f32" -> unpack_f32(self, rd.scale)
      [] rd.kind = "i32" -> unpack_i32(self)
      [] rd.kind = "u8" -> unpack_u8(self)

RECURSIVE unpack_reads(_, _, _, _)
\* the reads rds[i..] in order, each `?`-propagating its error
unpack_reads(self, rds, i, values) ==
    IF i > Len(rds) THEN [err |-> "Ok", cursor |-> self, value |-> values]
    ELSE LET r == unpack_kind(self, rds[i])
         IN  IF r.err # "Ok" THEN [err |-> r.err, cursor |-> r.cursor, value |-> values]
             ELSE unpack_reads(r.cursor, rds, i + 1,
                               [values EXCEPT ![rds[i].field] = r.value])

\* the reads of unpack_get_values, in source order
GetValuesReads ==
    << Rd("temp_mosfet", "f16", 10), Rd("temp_motor", "f16", 10),
       Rd("avg_current_motor", "f32", 100), Rd("avg_current_input", "f32", 100),
       Rd("avg_current_d", "f32", 100), Rd("avg_current_q", "f32", 100),
       Rd("duty_cycle", "f16", 1000), Rd("rpm", "f32", 1),
       Rd("voltage_in", "f16", 10), Rd("amp_hours", "f32", 10000),
       Rd("amp_hours_charged", "f32", 10000), Rd("watt_hours", "f32", 10000),
       Rd("watt_hours_charged", "f32", 10000), Rd("tachometer", "i32", 1),
       Rd("tachometer_abs", "i32", 1), Rd("fault_code", "u8", 1),
       Rd("pid_pos", "f32", 1000000), Rd("controller_id", "u8", 1),
       Rd("temp_mosfet1", "f16", 10), Rd("temp_mosfet2", "f16", 10),
       Rd("temp_mosfet3", "f16", 10), Rd("avg_voltage_d", "f32", 1000),
       Rd("avg_voltage_q", "f32", 1000), Rd("status", "u8", 1) >>

\* CommandReply::unpack_get_values
unpack_get_values(unpacker) ==
    LET r == unpack_reads(unpacker, GetValuesReads, 1, Values_default)
    IN  [err |-> r.err, cursor |-> r.cursor, id |-> CommandId_GetValues,
         value |-> [tag |-> "GetValues", values |-> r.value]]

\* one `if mask.contains(flag) { ... }` of unpack_get_values_selective
Arm(flag, rds) == [flag |-> flag, rds |-> rds]

\* the arms of unpack_get_values_selective, in source order
SelectiveArms ==
    << Arm(TEMP_MOSFET, <<Rd("temp_mosfet", "f16", 10)>>),
       Arm(TEMP_MOTOR, <<Rd("temp_motor", "f16", 10)>>),
       Arm(AVG_CURRENT_MOTOR, <<Rd("avg_current_motor", "f32", 100)>>),
       Arm(AVG_CURRENT_INPUT, <<Rd("avg_current_input", "f32", 100)>>),
       Arm(AVG_CURRENT_D, <<Rd("avg_current_d", "f32", 100)>>),
       Arm(AVG_CURRENT_Q, <<Rd("avg_current_q", "f32", 100)>>),
       Arm(DUTY_CYCLE, <<Rd("duty_cycle", "f16", 1000)>>),
       Arm(RPM, <<Rd("rpm", "f32", 1)>>),
       Arm(VOLTAGE_IN, <<Rd("voltage_in", "f16", 10)>>),
       Arm(AMP_HOURS, <<Rd("amp_hours", "f32", 10000)>>),
       Arm(AMP_HOURS_CHARGED, <<Rd("amp_hours_charged", "f32", 10000)>>),
       Arm(WATT_HOURS, <<Rd("watt_hours", "f32", 10000)>>),
       Arm(WATT_HOURS_CHARGED, <<Rd("watt_hours_charged", "f32", 10000)>>),
       Arm(TACHOMETER, <<Rd("tachometer", "i32", 1)>>),
       Arm(TACHOMETER_ABS, <<Rd("tachometer_abs", "i32", 1)>>),
       Arm(FAULT_CODE, <<Rd("fault_code", "u8", 1)>>),
       Arm(PID_POS, <<Rd("pid_pos", "f32", 1000000)>>),
       Arm(CONTROLLER_ID, <<Rd("controller_id", "u8", 1)>>),
       Arm(TEMP_MOSFET_ALL, <<Rd("temp_mosfet1", "f16", 10),
                              Rd("temp_mosfet2", "f16", 10),
                              Rd("temp_mosfet3", "f16", 10)>>),
       Arm(AVG_VOLTAGE_D, <<Rd("avg_voltage_d", "f32", 1000)>>),
       Arm(AVG_VOLTAGE_Q, <<Rd("avg_voltage_q", "f32", 1000)>>),
       Arm(STATUS, <<Rd("status", "u8", 1)>>) >>

RECURSIVE unpack_arms(_, _, _, _)
\* the arms k.. of unpack_get_values_selective under mask
unpack_arms(self, mask, k, values) ==
    IF k > Len(SelectiveArms) THEN [err |-> "Ok", cursor |-> self, value |-> values]
    ELSE IF contains(mask, SelectiveArms[k].flag)
         THEN LET r == unpack_reads(self, SelectiveArms[k].rds, 1, values)
              IN  IF r.err # "Ok" THEN r
                  ELSE unpack_arms(r.cursor, mask, k + 1, r.value)
         ELSE unpack_arms(self, mask, k + 1, values)

\* CommandReply::unpack_get_values_selective
unpack_get_values_selective(unpacker) ==
    LET m == unpack_u32(unpacker)
    IN  IF m.err # "Ok"
        THEN [err |-> m.err, cursor |-> m.cursor, id |-> CommandId_GetValuesSelective,
              value |-> [tag |-> "GetValuesSelective", values |-> Values_default]]
        ELSE LET r == unpack_arms(m.cursor, m.value, 1, Values_default)
             IN  [err |-> r.err, cursor |-> r.cursor, id |-> CommandId_GetValuesSelective,
                  value |-> [tag |-> "GetValuesSelective", values |-> r.value]]

\* the identifiers CommandId::try_from accepts
CommandIds ==
    {CommandId_GetValues, CommandId_SetCurrent, CommandId_SetRpm,
     CommandId_ForwardCan, CommandId_GetValuesSelective}

\* CommandReply::unpack_from
unpack_from(unpacker) ==
    LET b == unpack_u8(unpacker)
        none == [tag |-> "none", values |-> Values_default]
    IN  IF b.err # "Ok"
        THEN [err |-> b.err, cursor |-> b.cursor, id |-> 0, value |-> none]
        ELSE IF b.value \notin CommandIds
        THEN [err |-> "UnknownPacket", cursor |-> b.cursor, id |-> b.value, value |-> none]
        ELSE IF b.value = CommandId_GetValues THEN unpack_get_values(b.cursor)
        ELSE IF b.value = CommandId_GetValuesSelective
        THEN unpack_get_values_selective(b.cursor)
        ELSE [err |-> "UnknownPacket", cursor |-> b.cursor, id |-> b.value, value |-> none]

\* the Result of decode
DecodeResult(err, consumed, tag, values, id, expected, actual) ==
    [err |-> err, consumed |-> consumed, tag |-> tag, values |-> values,
     id |-> id, expected |-> expected, actual |-> actual]

\* Err(err) with no payload
DecodeErr(err) == DecodeResult(err, 0, "none", Values_default, 0, 0, 0)

\* decode, last step: the end marker
decode_end(r3, r5) ==
    IF r5.err # "Ok" THEN DecodeErr(r5.err)
    ELSE IF r5.value # FRAME_END THEN DecodeErr("InvalidFrame")
    ELSE DecodeResult("Ok", r5.cursor.pos, r3.value.tag, r3.value.values, r3.id, 0, 0)

\* a plausible slip: the stored and the computed checksum reported in each other's
\* place
decode_checksum_swapped(r3, payload, r4) ==
    IF r4.err # "Ok" THEN DecodeErr(r4.err)
    ELSE IF CRC16_checksum(payload) # r4.value
    THEN DecodeResult("ChecksumMismatch", 0, "none", Values_default, 0,
                      CRC16_checksum(payload), r4.value)
    ELSE decode_end(r3, unpack_u8(r4.cursor))

\* decode, fourth step: the stored checksum r4 against the CRC of payload
decode_checksum(r3, payload, r4) ==
    IF r4.err # "Ok" THEN DecodeErr(r4.err)
    ELSE IF CRC16_checksum(payload) # r4.value
    THEN DecodeResult("ChecksumMismatch", 0, "none", Values_default, 0,
                      r4.value, CRC16_checksum(payload))
    ELSE decode_end(r3, unpack_u8(r4.cursor))

\* a plausible slip: the checksummed range taken as [2, 2 + payload_len)
decode_payload_from_two(buf, payload_len, r3) ==
    IF r3.err # "Ok" THEN [DecodeErr(r3.err) EXCEPT !.id = r3.id]
    ELSE IF 2 + payload_len > Len(buf) THEN DecodeErr("Panic")
    ELSE decode_checksum(r3, SubSeq(buf, 3, 2 + payload_len), unpack_u16(r3.cursor))

\* decode, third step: the reply r3 has been unpacked; the checksummed range is
\* &unpacker.buf[unpacker.pos - payload_len..unpacker.pos].  The usize subtraction
\* overflows when payload_len > pos: a panic in a checked build, and in an
\* unchecked build a wrapped start beyond the slice's end, a panic too
decode_payload(buf, payload_len, r3) ==
    IF r3.err # "Ok" THEN [DecodeErr(r3.err) EXCEPT !.id = r3.id]
    ELSE IF r3.cursor.pos - payload_len < 0 THEN DecodeErr("Panic")
    ELSE decode_checksum(r3,
                         SubSeq(buf, r3.cursor.pos - payload_len + 1, r3.cursor.pos),
                         unpack_u16(r3.cursor))

\* decode, second step: the payload length byte, then the reply
decode_len(buf, r2) ==
    IF r2.err # "Ok" THEN DecodeErr(r2.err)
    ELSE decode_payload(buf, r2.value, unpack_from(r2.cursor))

\* decode, first step: the start marker
decode_start(buf, r1) ==
    IF r1.err # "Ok" THEN DecodeErr(r1.err)
    ELSE IF r1.value # FRAME_START_SHORT THEN DecodeErr("InvalidFrame")
    ELSE decode_len(buf, unpack_u8(r1.cursor))

\* decode(buf)
decode(buf) == decode_start(buf, unpack_u8(Unpacker_new(buf)))

(***************************************************************************)
(* Inputs of the model.  What follows builds the arguments handed to       *)
(* encode and decode; it is not part of the codec.                         *)
(***************************************************************************)
\* a zero-filled output buffer of capacity n
Zeros(n) == [i \in 1..n |-> 0]

\* the currents drawn: sixteenths, so that current * 1000 is exact in f32
Currents == {F32(0, 1), F32(1, 1), F32(-1, 1), F32(1, 16), F32(-1, 16), F32(25, 16)}

\* the rpm values drawn
Rpms == {0, 1, 1234, -1, -1234, I32_MAX, I32_MIN}

\* the masks drawn for GetValuesSelective commands: no bit, single defined bits,
\* several defined bits, undefined bits, every bit
CommandMasks ==
    {{}, TEMP_MOSFET, VOLTAGE_IN, FAULT_CODE, TEMP_MOSFET \cup VOLTAGE_IN,
     FAULT_CODE \cup CONTROLLER_ID, RPM \cup WATT_HOURS \cup CONTROLLER_ID,
     {22}, {22} \cup {31}, {22} \cup STATUS, U32_ALL}

\* the target controller ids drawn for ForwardCan
Targets == {1, 7, 255}

LeafCommands ==
    {GetValues} \cup {SetCurrent(c) : c \in Currents} \cup {SetRpm(r) : r \in Rpms}
        \cup {GetValuesSelective(m) : m \in CommandMasks}

\* the number of ForwardCan layers around the innermost command
Depth(c) == Len(c.fwd)

\* the variant of the command itself
Variant(c) == IF Depth(c) > 0 THEN "ForwardCan" ELSE c.tag

\* the innermost command
Innermost(c) == [c EXCEPT !.fwd = <<>>]

\* the wire table of a Values record: field, width in bytes, scale, mask bit and
\* whether the decoded field is a scaled float ("f"), a signed integer ("i") or a
\* byte ("u")
Wf(field, width, scale, bit, kind) ==
    [field |-> field, width |-> width, scale |-> scale, bit |-> bit, kind |-> kind]

WireFields ==
    << Wf("temp_mosfet", 2, 10, 0, "f"), Wf("temp_motor", 2, 10, 1, "f"),
       Wf("avg_current_motor", 4, 100, 2, "f"), Wf("avg_current_input", 4, 100, 3, "f"),
       Wf("avg_current_d", 4, 100, 4, "f"), Wf("avg_current_q", 4, 100, 5, "f"),
       Wf("duty_cycle", 2, 1000, 6, "f"), Wf("rpm", 4, 1, 7, "f"),
       Wf("voltage_in", 2, 10, 8, "f"), Wf("amp_hours", 4, 10000, 9, "f"),
       Wf("amp_hours_charged", 4, 10000, 10, "f"), Wf("watt_hours", 4, 10000, 11, "f"),
       Wf("watt_hours_charged", 4, 10000, 12, "f"), Wf("tachometer", 4, 1, 13, "i"),
       Wf("tachometer_abs", 4, 1, 14, "i"), Wf("fault_code", 1, 1, 15, "u"),
       Wf("pid_pos", 4, 1000000, 16, "f"), Wf("controller_id", 1, 1, 17, "u"),
       Wf("temp_mosfet1", 2, 10, 18, "f"), Wf("temp_mosfet2", 2, 10, 18, "f"),
       Wf("temp_mosfet3", 2, 10, 18, "f"), Wf("avg_voltage_d", 4, 1000, 19, "f"),
       Wf("avg_voltage_q", 4, 1000, 20, "f"), Wf("status", 1, 1, 21, "u") >>

\* the number of wire-value patterns drawn for reply frames
NumPatterns == 2

\* the wire integer pattern pat puts in field i: distinct per field, negative for
\* the signed fields of even patterns, wide enough to fill every byte of the field
WireValue(pat, i) ==
    LET base == i * (6 + pat) + pat
        w == WireFields[i].width
    IN  IF w = 1 THEN base % 256
        ELSE IF pat % 2 = 0 THEN -(base * (IF w = 2 THEN 101 ELSE 70001))
        ELSE base * (IF w = 2 THEN 101 ELSE 70001)

\* the big-endian two's complement bytes of v in a field of w bytes
WireBytes(v, w) ==
    LET mag == IF v >= 0 THEN v ELSE -(v + 1)
        byte(k) == (mag \div Pow2(8 * (w - k))) % 256
    IN  [k \in 1..w |-> IF v >= 0 THEN byte(k) ELSE 255 - byte(k)]

\* the four bytes of a mask, most significant first
MaskBytes(mask) ==
    [k \in 1..4 |-> BitsValue(mask, 8 * (4 - k), 0)]

\* whether a reply with this id and mask carries field i
Carried(id, mask, i) ==
    id = CommandId_GetValues \/ WireFields[i].bit \in mask

RECURSIVE WireFieldBytes(_, _, _, _)
\* the field bytes of a reply, fields i.. in table order
WireFieldBytes(id, mask, pat, i) ==
    IF i > Len(WireFields) THEN <<>>
    ELSE (IF Carried(id, mask, i)
          THEN WireBytes(WireValue(pat, i), WireFields[i].width) ELSE <<>>)
         \o WireFieldBytes(id, mask, pat, i + 1)

\* the payload of a reply: id, the mask of a selective reply, the fields
ReplyPayload(id, mask, pat) ==
    <<id>> \o (IF id = CommandId_GetValuesSelective THEN MaskBytes(mask) ELSE <<>>)
           \o WireFieldBytes(id, mask, pat, 1)

\* the CRC of bytes as the bit-serial shift register of polynomial poly started at
\* init: most significant bit first, no reflection, no final xor
CrcRef(poly, init, bytes) ==
    LET RECURSIVE bits(_, _, _)
        bits(crc, byte, k) ==
            IF crc < 0 \/ k = 0 THEN crc
            ELSE LET top == crc \div 32768
                     inb == Bit(byte, k - 1)
                     sh == (crc * 2) % 65536
                 IN  bits(IF top # inb THEN Xor16(sh, poly) ELSE sh, byte, k - 1)
        RECURSIVE go(_, _, _)
        go(lo, hi, crc) ==
            IF crc < 0 \/ lo > hi THEN crc
            ELSE IF lo = hi THEN bits(crc, bytes[lo], 8)
            ELSE go((lo + hi) \div 2 + 1, hi, go(lo, (lo + hi) \div 2, crc))
    IN  go(1, Len(bytes), init)

\* the XMODEM CRC16 (polynomial 0x1021, initial value 0)
Xmodem(bytes) == CrcRef(4129, 0, bytes)

\* the short frame around a payload: start, length, payload, CRC, end
WellFormed(payload) ==
    <<2, Len(payload) % 256>> \o payload \o
        <<Xmodem(payload) \div 256, Xmodem(payload) % 256, 3>>

\* the example frame of decode's documentation
DocFrame == <<2, 7, 50, 0, 0, 1, 128, 0, 0, 4, 210, 1, 176, 254, 22, 3>>

\* the masks drawn for selective replies: none, each of the 32 bits alone, the
\* documentation's pair, bit 18 with neighbours, every defined bit, defined and
\* undefined bits together, every bit
ReplyMasks ==
    {{}} \cup {{b} : b \in 0..31}
        \cup {RPM \cup VOLTAGE_IN, CONTROLLER_ID \cup TEMP_MOSFET_ALL \cup AVG_VOLTAGE_D,
              0..21, TEMP_MOSFET \cup {25}, U32_ALL}

NoFrame == [kind |-> "none", id |-> 0, mask |-> {}, pat |-> 0, bytes |-> <<>>]

\* the frames decode is started from
BaseFrames ==
    {[kind |-> "selective", id |-> CommandId_GetValuesSelective, mask |-> m, pat |-> p,
      bytes |-> WellFormed(ReplyPayload(CommandId_GetValuesSelective, m, p))] :
        m \in ReplyMasks, p \in 1..NumPatterns}
    \cup {[kind |-> "full", id |-> CommandId_GetValues, mask |-> {}, pat |-> p,
           bytes |-> WellFormed(ReplyPayload(CommandId_GetValues, {}, p))] :
            p \in 1..NumPatterns}
    \cup {[kind |-> "doc", id |-> CommandId_GetValuesSelective, mask |-> RPM \cup VOLTAGE_IN,
           pat |-> 0, bytes |-> DocFrame]}

\* the length bytes an edited frame may declare
LengthBytes == {0, 1, 4, 5, 6, 7, 8, 73, 74, 75, 255}

NoEdit == [flip |-> <<>>, len |-> -1, trunc |-> -1]

\* byte v with bit b flipped
FlipBitOf(v, b) == IF Bit(v, b) = 1 THEN v - Pow2(b) ELSE v + Pow2(b)

NoOut == [called |-> FALSE, cap |-> 0, res |-> EncodeResult("none", 0, <<>>)]

NoReply == [called |-> FALSE, res |-> DecodeErr("none")]

\* a Packer or an Unpacker over no bytes
NoCursor == [buf |-> <<>>, pos |-> 0]

\* the record of an operation on a cursor: which side, which method, the bytes
\* it writes or reads, its Result and the cursor it was called on
Op(side, op, width, err, before) ==
    [side |-> side, op |-> op, width |-> width, err |-> err, before |-> before]

NoOp == Op("none", "none", 0, "Ok", NoCursor)

(***************************************************************************)
(* The encoder specification: a caller builds a command, encodes it into   *)
(* a buffer of some capacity and may hand the frame written to decode.     *)
(***************************************************************************)
Init ==
    /\ command \in LeafCommands
    /\ out = NoOut
    /\ frame = NoFrame
    /\ edit = NoEdit
    /\ input = <<>>
    /\ reply = NoReply
    /\ the_packer = NoCursor /\ the_unpacker = NoCursor /\ last = NoOp

\* Command::ForwardCan(t, &command)
WrapForwardCan(t) ==
    /\ ~out.called
    /\ Depth(command) < MaxNest
    /\ command' = ForwardCan(t, command)
    /\ UNCHANGED <<out, frame, edit, input, reply>>
    /\ UNCHANGED cursors

\* encode(command, &mut [0u8; n])
Encode(n) ==
    /\ ~out.called
    /\ out' = [called |-> TRUE, cap |-> n, res |-> encode(command, Zeros(n))]
    /\ UNCHANGED <<command, frame, edit, input, reply>>
    /\ UNCHANGED cursors

\* decode(&buf[..size]) of the frame encode wrote
DecodeEncoded ==
    /\ out.called
    /\ out.res.err = "Ok"
    /\ ~reply.called
    /\ input' = SubSeq(out.res.buf, 1, out.res.size)
    /\ reply' = [called |-> TRUE, res |-> decode(input')]
    /\ UNCHANGED <<command, out, frame, edit>>
    /\ UNCHANGED cursors

Next ==
    \/ \E t \in Targets : WrapForwardCan(t)
    \/ \E n \in 0..MaxBuf : Encode(n)
    \/ DecodeEncoded

Spec == Init /\ [][Next]_vars

(***************************************************************************)
(* The deep-nesting specification: ForwardCan wrapped around a command     *)
(* until the payload passes 255 bytes, encoded into a large buffer.        *)
(***************************************************************************)
InitDeep ==
    /\ command \in {GetValues, SetRpm(1234)}
    /\ out = NoOut
    /\ frame = NoFrame
    /\ edit = NoEdit
    /\ input = <<>>
    /\ reply = NoReply
    /\ the_packer = NoCursor /\ the_unpacker = NoCursor /\ last = NoOp

\* Command::ForwardCan(1, &command)
WrapDeep ==
    /\ ~out.called
    /\ Depth(command) < MaxDeepNest
    /\ command' = ForwardCan(1, command)
    /\ UNCHANGED <<out, frame, edit, input, reply>>
    /\ UNCHANGED cursors

\* encode(command, &mut [0u8; n]) with a small or a large buffer
EncodeDeep ==
    /\ ~out.called
    /\ \E n \in {MaxBuf, DeepBuf} :
          out' = [called |-> TRUE, cap |-> n, res |-> encode(command, Zeros(n))]
    /\ UNCHANGED <<command, frame, edit, input, reply>>
    /\ UNCHANGED cursors

NextDeep == WrapDeep \/ EncodeDeep

SpecDeep == InitDeep /\ [][NextDeep]_vars

(***************************************************************************)
(* The decoder specification: a reply frame arrives, possibly with one bit *)
(* flipped, or with another length byte and possibly cut short, and is     *)
(* handed to decode.                                                       *)
(***************************************************************************)
InitDecode ==
    /\ frame \in BaseFrames
    /\ input = frame.bytes
    /\ command = (IF frame.id = CommandId_GetValues THEN GetValues
                  ELSE GetValuesSelective(frame.mask))
    /\ out = NoOut
    /\ edit = NoEdit
    /\ reply = NoReply
    /\ the_packer = NoCursor /\ the_unpacker = NoCursor /\ last = NoOp

\* one bit of one byte of the frame is flipped in transit
FlipBit(i, b) ==
    /\ ~reply.called
    /\ edit = NoEdit
    /\ i \in 1..Len(input)
    /\ input' = [input EXCEPT ![i] = FlipBitOf(input[i], b)]
    /\ edit' = [edit EXCEPT !.flip = <<i, b>>]
    /\ UNCHANGED <<command, out, frame, reply>>
    /\ UNCHANGED cursors

\* the frame declares another payload length
SetLength(l) ==
    /\ ~reply.called
    /\ edit = NoEdit
    /\ l # input[2]
    /\ input' = [input EXCEPT ![2] = l]
    /\ edit' = [edit EXCEPT !.len = l]
    /\ UNCHANGED <<command, out, frame, reply>>
    /\ UNCHANGED cursors

\* only the first k bytes of the frame have arrived
Truncate(k) ==
    /\ ~reply.called
    /\ edit.flip = <<>>
    /\ edit.trunc = -1
    /\ k < Len(input)
    /\ input' = SubSeq(input, 1, k)
    /\ edit' = [edit EXCEPT !.trunc = k]
    /\ UNCHANGED <<command, out, frame, reply>>
    /\ UNCHANGED cursors

\* decode(&input)
Decode ==
    /\ ~reply.called
    /\ reply' = [called |-> TRUE, res |-> decode(input)]
    /\ UNCHANGED <<command, out, frame, edit, input>>
    /\ UNCHANGED cursors

\* the longest frame drawn: a full GetValues reply
MaxFrameLen == 84

NextDecode ==
    \/ \E i \in 1..MaxFrameLen, b \in 0..7 : FlipBit(i, b)
    \/ \E l \in LengthBytes : SetLength(l)
    \/ \E k \in 0..MaxFrameLen : Truncate(k)
    \/ Decode

SpecDecode == InitDecode /\ [][NextDecode]_vars

(***************************************************************************)
(* The cursor specification: a Packer over a buffer of fixed capacity takes *)
(* any sequence of writes; an Unpacker over the buffer then takes any       *)
(* sequence of reads.  last records each call.                              *)
(***************************************************************************)
\* the largest buffer a Packer is given
MaxCap == 6

\* a buffer of n bytes, each different from its neighbours and from 0
Fill(n) == [i \in 1..n |-> 160 + i]

InitCursor ==
    /\ command = GetValues
    /\ out = NoOut
    /\ frame = NoFrame
    /\ edit = NoEdit
    /\ input = <<>>
    /\ reply = NoReply
    /\ \E n \in 0..MaxCap : the_packer = Packer_new(Fill(n))
    /\ the_unpacker = NoCursor
    /\ last = Op("pack", "new", 0, "Ok", NoCursor)

\* a write through packer returned r
Packed(op, width, r) ==
    /\ last.side = "pack"
    /\ the_packer' = r.cursor
    /\ last' = Op("pack", op, width, r.err, the_packer)
    /\ UNCHANGED the_unpacker
    /\ UNCHANGED codec

\* packer.pack_u8(v)
PackU8(v) == Packed("pack_u8", 1, pack_u8(the_packer, v))

\* packer.pack_u16(v)
PackU16(v) == Packed("pack_u16", 2, pack_u16(the_packer, v))

\* packer.pack_u32(v)
PackU32(v) == Packed("pack_u32", 4, pack_u32(the_packer, v))

\* packer.pack_i32(v)
PackI32(v) == Packed("pack_i32", 4, pack_i32(the_packer, v))

\* packer.pack_f32(v, scale)
PackF32(v, scale) == Packed("pack_f32", 4, pack_f32(the_packer, v, scale))

\* Unpacker::new(&buf) over the buffer the Packer wrote into
StartUnpack ==
    /\ last.side = "pack"
    /\ the_unpacker' = Unpacker_new(the_packer.buf)
    /\ last' = Op("unpack", "new", 0, "Ok", the_unpacker')
    /\ UNCHANGED the_packer
    /\ UNCHANGED codec

\* a read through unpacker returned r
Unpacked(op, width, r) ==
    /\ last.side = "unpack"
    /\ the_unpacker' = r.cursor
    /\ last' = Op("unpack", op, width, r.err, the_unpacker)
    /\ UNCHANGED the_packer
    /\ UNCHANGED codec

\* unpacker.unpack_u8()
UnpackU8 == Unpacked("unpack_u8", 1, unpack_u8(the_unpacker))

\* unpacker.unpack_u16()
UnpackU16 == Unpacked("unpack_u16", 2, unpack_u16(the_unpacker))

\* unpacker.unpack_u32()
UnpackU32 == Unpacked("unpack_u32", 4, unpack_u32(the_unpacker))

\* unpacker.unpack_i16()
UnpackI16 == Unpacked("unpack_i16", 2, unpack_i16(the_unpacker))

\* unpacker.unpack_i32()
UnpackI32 == Unpacked("unpack_i32", 4, unpack_i32(the_unpacker))

\* unpacker.unpack_f16(10.0)
UnpackF16 == Unpacked("unpack_f16", 2, unpack_f16(the_unpacker, 10))

\* unpacker.unpack_f32(1000.0)
UnpackF32 == Unpacked("unpack_f32", 4, unpack_f32(the_unpacker, 1000))

NextCursor ==
    \/ \E v \in {0, 255} : PackU8(v)
    \/ PackU16(258)
    \/ PackU32({0, 9, 31})
    \/ PackI32(-2)
    \/ PackF32(F32(25, 16), 1000)
    \/ StartUnpack
    \/ UnpackU8
    \/ UnpackU16
    \/ UnpackU32
    \/ UnpackI16
    \/ UnpackI32
    \/ UnpackF16
    \/ UnpackF32

SpecCursor == InitCursor /\ [][NextCursor]_vars

(***************************************************************************)
(* What the claims speak of.                                               *)
(***************************************************************************)
\* the number of payload bytes of a command: the id and target id of every
\* ForwardCan layer, then the innermost command's id and its 4-byte field, if any
PayloadLen(c) == 2 * Depth(c) + (IF c.tag = "GetValues" THEN 1 ELSE 5)

\* the quotient a / b (b > 0) truncated toward zero
TruncDiv(a, b) == IF a >= 0 THEN a \div b ELSE -((-a) \div b)

\* the payload of a command as the wire format states it: id 34 and the target id
\* for every ForwardCan layer, then the innermost command's id and field
ExpectedPayload(c) ==
    [i \in 1..(2 * Depth(c)) |-> IF i % 2 = 1 THEN 34 ELSE c.fwd[i \div 2]] \o
    (CASE c.tag = "GetValues" -> <<4>>
       [] c.tag = "SetCurrent" ->
             <<6>> \o WireBytes(TruncDiv(c.current.num * 1000, c.current.den), 4)
       [] c.tag = "SetRpm" -> <<8>> \o WireBytes(c.rpm, 4)
       [] c.tag = "GetValuesSelective" -> <<50>> \o MaskBytes(c.mask))

\* the bytes encode reported as written
Written == SubSeq(out.res.buf, 1, out.res.size)

EncodedOk == out.called /\ out.res.err = "Ok"

\* the big-endian 16-bit value at offsets i, i + 1 of bytes
Be16At(bytes, i) == bytes[i + 1] * 256 + bytes[i + 2]

RECURSIVE ExpectedFrom(_, _, _, _)
\* the Values a reply with this mask and pattern carries: the wire value over the
\* scale for a carried field, the default for the others
ExpectedFrom(id, mask, pat, i) ==
    IF i = 0 THEN Values_default
    ELSE LET rest == ExpectedFrom(id, mask, pat, i - 1)
             f == WireFields[i]
         IN  IF ~Carried(id, mask, i) THEN rest
             ELSE [rest EXCEPT ![f.field] =
                      IF f.kind = "f" THEN F32(WireValue(pat, i), f.scale)
                      ELSE WireValue(pat, i)]

ExpectedValues(id, mask, pat) == ExpectedFrom(id, mask, pat, Len(WireFields))

\* the outcomes decode's signature allows
TypedOutcomes == {"Ok", "IncompleteData", "InvalidFrame", "UnknownPacket", "ChecksumMismatch"}

\* the frame was decoded as it arrived
DecodedUnedited == reply.called /\ edit = NoEdit

\* C1: decode returns Ok or one of its typed errors for every input, whatever its
\* length byte and wherever it is cut; it never aborts.
C1_NeverAborts == reply.called => reply.res.err \in TypedOutcomes

\* C2: for every well-formed reply frame that decode accepts, decode of the frame
\* with one payload bit flipped returns ChecksumMismatch and nothing else.
C2_ChecksumSensitivity ==
    (/\ reply.called
     /\ frame.kind \in {"selective", "full"}
     /\ decode(frame.bytes).err = "Ok"
     /\ edit.flip # <<>> /\ edit.len = -1 /\ edit.trunc = -1
     /\ edit.flip[1] >= 3 /\ edit.flip[1] <= 2 + frame.bytes[2])
        => reply.res.err = "ChecksumMismatch"

\* C3: encode into a buffer shorter than the frame fails with BufferTooSmall; into
\* a buffer of exactly the frame's length it succeeds and fills the buffer.
C3_BufferExhaustion ==
    out.called =>
        LET L == PayloadLen(command) + 5
        IN  /\ out.cap < L => out.res.err = "BufferTooSmall"
            /\ out.cap = L => /\ out.res.err = "Ok"
                              /\ out.res.size = L
                              /\ out.res.size = Len(out.res.buf)

C3_Witness ==
    /\ out.called /\ command = SetRpm(0) /\ out.cap = 10
    /\ out.res.err = "Ok" /\ out.res.size = 10

\* C4: a successful encode writes start marker, length, the command's payload in
\* big-endian order, the XMODEM CRC16 of the payload and the end marker; the
\* stated vectors come out.
C4_FrameLayout ==
    EncodedOk =>
        /\ Written = WellFormed(ExpectedPayload(command))
        /\ command = GetValues => Written = <<2, 1, 4, 64, 132, 3>>
        /\ command = SetCurrent(F32(0, 1)) => Written = <<2, 5, 6, 0, 0, 0, 0, 205, 133, 3>>
        /\ command = SetRpm(1234) => Written = <<2, 5, 8, 0, 0, 4, 210, 37, 214, 3>>
        /\ command = SetRpm(-1) => Written = <<2, 5, 8, 255, 255, 255, 255, 155, 226, 3>>
        /\ command = ForwardCan(1, SetRpm(1234))
              => Written = <<2, 7, 34, 1, 8, 0, 0, 4, 210, 110, 99, 3>>
        /\ command = GetValuesSelective(RPM \cup WATT_HOURS \cup CONTROLLER_ID)
              => Written = <<2, 5, 50, 0, 2, 8, 128, 62, 44, 3>>

C4_Witness ==
    /\ EncodedOk
    /\ command = ForwardCan(1, SetRpm(1234))
    /\ Written = <<2, 7, 34, 1, 8, 0, 0, 4, 210, 110, 99, 3>>

\* C5: decode of the documentation's frame succeeds with a GetValuesSelective
\* reply whose rpm is 1234, whose voltage_in is 43.2 and whose other fields are 0.
C5_DocExample ==
    (DecodedUnedited /\ frame.kind = "doc") =>
        /\ reply.res.err = "Ok"
        /\ reply.res.tag = "GetValuesSelective"
        /\ reply.res.values = [Values_default EXCEPT !.rpm = [num |-> 1234, den |-> 1],
                                                     !.voltage_in = [num |-> 216, den |-> 5]]

C5_Witness ==
    /\ DecodedUnedited /\ frame.kind = "doc" /\ input = DocFrame
    /\ reply.res.err = "Ok" /\ reply.res.values.rpm = [num |-> 1234, den |-> 1]

\* C6: decode of a well-formed selective reply, whatever its mask, succeeds with a
\* GetValuesSelective reply in which the fields of the set defined bits carry the
\* wire values (bit 18 all three mosfet temperatures) and every other field is 0;
\* undefined bits consume nothing.
C6_SelectiveDecode ==
    (DecodedUnedited /\ frame.kind = "selective") =>
        /\ reply.res.err = "Ok"
        /\ reply.res.tag = "GetValuesSelective"
        /\ reply.res.consumed = Len(frame.bytes)
        /\ reply.res.values = ExpectedValues(frame.id, frame.mask, frame.pat)

C6_Witness ==
    /\ DecodedUnedited /\ frame.kind = "selective" /\ frame.pat = 2
    /\ frame.mask = CONTROLLER_ID \cup TEMP_MOSFET_ALL \cup AVG_VOLTAGE_D
    /\ reply.res.err = "Ok"
    /\ reply.res.values.temp_mosfet3 = F32(WireValue(2, 21), 10)
    /\ reply.res.values.temp_mosfet3 # F32Zero
    /\ reply.res.values.status = 0

\* C7 as stated: the byte count encode returns is the length byte plus 6.
C7_Original == EncodedOk => out.res.size = out.res.buf[2] + 6

\* C7 as amended: the byte count encode returns is the number of payload bytes plus
\* 5, and the length byte holds that number modulo 256.
C7_FrameSize ==
    EncodedOk =>
        /\ out.res.size = PayloadLen(command) + 5
        /\ out.res.buf[2] = PayloadLen(command) % 256
        /\ PayloadLen(command) <= 255 => out.res.size = out.res.buf[2] + 5

C7_Witness ==
    /\ EncodedOk /\ Depth(command) = 3 /\ Innermost(command) = SetRpm(1234)
    /\ out.res.buf[2] = 11 /\ out.res.size = 16

\* C8: whenever encode succeeds, at any nesting depth, the length byte equals the
\* number of payload bytes written, and that number is within 0..255.
C8_LengthByte ==
    EncodedOk =>
        /\ out.res.buf[2] = PayloadLen(command)
        /\ PayloadLen(command) \in 0..255

HasReplyShape == Variant(command) \in {"GetValues", "GetValuesSelective"}

\* C10 as stated: decode of the frame encode wrote for GetValues or
\* GetValuesSelective succeeds with the reply of the same id and consumes the
\* bytes encode returned.
C10_Original ==
    (reply.called /\ HasReplyShape) =>
        /\ reply.res.err = "Ok"
        /\ reply.res.tag = Variant(command)
        /\ reply.res.consumed = out.res.size

\* C10 as amended: decode of the frame encode wrote fails with IncompleteData for
\* GetValues; for GetValuesSelective(mask) it succeeds exactly when mask has none
\* of the 22 defined bits, then with an all-zero GetValuesSelective reply and the
\* bytes encode returned consumed, and fails with IncompleteData or
\* ChecksumMismatch otherwise.
C10_RoundTrip ==
    reply.called =>
        /\ Variant(command) = "GetValues" => reply.res.err = "IncompleteData"
        /\ Variant(command) = "GetValuesSelective" =>
              IF command.mask \cap (0..21) = {}
              THEN /\ reply.res.err = "Ok"
                   /\ reply.res.tag = "GetValuesSelective"
                   /\ reply.res.id = 50
                   /\ reply.res.consumed = out.res.size
                   /\ reply.res.values = Values_default
              ELSE reply.res.err \in {"IncompleteData", "ChecksumMismatch"}

C10_Witness ==
    /\ reply.called /\ command = GetValuesSelective({22} \cup {31})
    /\ reply.res.err = "Ok" /\ reply.res.consumed = 10

\* the offset at which the decoded payload of buf ends, when decode reads the
\* start marker, an id of 4 or 50 and every field of its layout; -1 otherwise
PayloadEnd(buf) ==
    IF Len(buf) < 2 \/ buf[1] # FRAME_START_SHORT THEN -1
    ELSE LET r3 == unpack_from(unpack_u8(unpack_u8(Unpacker_new(buf)).cursor).cursor)
         IN  IF r3.err = "Ok" THEN r3.cursor.pos ELSE -1

\* decode was handed an input on which it reaches the checksum step
ReachedChecksum == reply.called /\ PayloadEnd(input) >= 0

\* C11 as stated: on every input that reaches the checksum step decode computes
\* the CRC of the bytes at offsets [2, 2 + L), L the length byte, and returns
\* ChecksumMismatch with the stored and the computed value exactly when the two
\* bytes after the decoded payload differ from it, before it looks at the end
\* marker.
C11_Original ==
    (ReachedChecksum /\ 2 + input[2] <= Len(input) /\ PayloadEnd(input) + 2 <= Len(input)) =>
        LET stored == Be16At(input, PayloadEnd(input))
            computed == Xmodem(SubSeq(input, 3, 2 + input[2]))
        IN  /\ reply.res.err = "ChecksumMismatch" <=> stored # computed
            /\ reply.res.err = "ChecksumMismatch" =>
                  reply.res.expected = stored /\ reply.res.actual = computed

\* C11 as amended: on every input that reaches the checksum step, with the
\* decoded payload ending at offset p and length byte L, decode aborts when
\* L > p; otherwise it computes the CRC of the bytes at offsets [p - L, p), fails
\* with IncompleteData when fewer than 2 bytes follow p, and returns
\* ChecksumMismatch with the stored and the computed value exactly when the two
\* bytes at [p, p + 2) differ from the CRC, whatever follows them; only when they
\* agree does the end marker decide between Ok, InvalidFrame and IncompleteData.
C11_ChecksumStep ==
    ReachedChecksum =>
        LET p == PayloadEnd(input)
            L == input[2]
        IN  IF L > p THEN reply.res.err = "Panic"
            ELSE IF Len(input) < p + 2 THEN reply.res.err = "IncompleteData"
            ELSE LET stored == Be16At(input, p)
                     computed == Xmodem(SubSeq(input, p - L + 1, p))
                 IN  IF stored # computed
                     THEN /\ reply.res.err = "ChecksumMismatch"
                          /\ reply.res.expected = stored
                          /\ reply.res.actual = computed
                     ELSE IF Len(input) < p + 3 THEN reply.res.err = "IncompleteData"
                     ELSE IF input[p + 3] # FRAME_END THEN reply.res.err = "InvalidFrame"
                     ELSE reply.res.err = "Ok" /\ reply.res.consumed = p + 3

\* a frame whose length byte is not its payload's size and whose end marker has
\* not arrived: the checksum over the last L bytes decoded is what fails
C11_Witness ==
    /\ ReachedChecksum
    /\ edit.len = 4 /\ edit.trunc = PayloadEnd(input) + 2
    /\ input[2] = 4 /\ PayloadEnd(input) = 11
    /\ reply.res.err = "ChecksumMismatch"
    /\ reply.res.expected = Be16At(input, 11)
    /\ reply.res.actual = Xmodem(SubSeq(input, 8, 11))
    /\ reply.res.actual # Xmodem(SubSeq(input, 3, 6))

\* the bytes of buffer a and of buffer b agree outside the offsets [lo, hi)
SameOutside(a, b, lo, hi) ==
    /\ Len(a) = Len(b)
    /\ \A i \in 1..Len(a) : (i <= lo \/ i > hi) => a[i] = b[i]

\* C12: through any sequence of Packer writes and Unpacker reads the offset
\* stays within 0..buffer length and never decreases; a failed operation
\* (BufferTooSmall for the writer, IncompleteData for the reader) leaves the
\* offset and every byte as they were; a successful operation of width w advances
\* the offset by w and, for the writer, changes only the bytes at
\* [old pos, old pos + w).
C12_CursorFrame ==
    /\ the_packer.pos >= 0 /\ the_packer.pos <= Len(the_packer.buf)
    /\ the_unpacker.pos >= 0 /\ the_unpacker.pos <= Len(the_unpacker.buf)
    /\ (last.side = "pack" /\ last.op # "new") =>
          /\ the_packer.pos >= last.before.pos
          /\ last.err \in {"Ok", "BufferTooSmall"}
          /\ last.err = "BufferTooSmall" => the_packer = last.before
          /\ last.err = "Ok" =>
                /\ the_packer.pos = last.before.pos + last.width
                /\ SameOutside(the_packer.buf, last.before.buf,
                               last.before.pos, last.before.pos + last.width)
    /\ (last.side = "unpack" /\ last.op # "new") =>
          /\ the_unpacker.pos >= last.before.pos
          /\ the_unpacker.buf = last.before.buf
          /\ last.err \in {"Ok", "IncompleteData"}
          /\ last.err = "IncompleteData" => the_unpacker = last.before
          /\ last.err = "Ok" => the_unpacker.pos = last.before.pos + last.width

\* the writer stopped one byte short of a 6-byte buffer, and the reader was
\* refused a 16-bit read one byte before the end
C12_Witness ==
    /\ last.side = "unpack" /\ last.op = "unpack_f16" /\ last.err = "IncompleteData"
    /\ Len(the_unpacker.buf) = 6 /\ the_unpacker.pos = 5 /\ last.before.pos = 5
    /\ the_packer.pos = 5 /\ the_packer.buf[5] = 255 /\ the_packer.buf[6] = 166

====
